---- MODULE Spec2Model ----
(***************************************************************************)
(* A model of esp32-ssd1306-solana: the render loop thread, the five       *)
(* button watcher threads and the poller loop of src/src/main.rs, the      *)
(* fetch operations of src/src/http.rs they use, and the draw operations   *)
(* of src/src/display.rs as far as they are invoked and sleep.             *)
(*                                                                         *)
(* Four specifications are defined:                                        *)
(*   Spec       all threads of main.rs interleaved, time abstracted away   *)
(*              (a sleep is a step);                                       *)
(*   SpecFetch  the four fetch operations of Http called one after the     *)
(*              other with every remote response;                          *)
(*   SpecTimed  the render loop and the button watchers with the sleeps    *)
(*              of the code measured in milliseconds, the input lines      *)
(*              following a waveform fixed at the start.                   *)
(*   SpecLive   the threads of main.rs under fair scheduling, two of the   *)
(*              buttons ever pressed.                                      *)
(***************************************************************************)
EXTENDS Integers, Sequences, FiniteSets, TLC

----------------------------------------------------------------------------
(* Bounds of the model *)

\* fetched balances range over 0..MaxBalance (lamports)
MaxBalance == 1

\* SpecTimed runs until this time (ms)
MaxTime == 12000

----------------------------------------------------------------------------
(* Program constants *)

\* http.rs:100 and http.rs:176  let max_retries = 3
max_retries == 3

\* http.rs:110 and http.rs:199  sleep between two attempts (ms)
RETRY_DELAY == 1500

\* main.rs:126  const LOOP_DELAY
LOOP_DELAY == 150

\* main.rs:168  sleep of a watcher whose line is high (ms)
PULSE_DELAY == 500

\* main.rs:171  sleep of a watcher after a write (ms)
COOLDOWN == 5000

\* main.rs:228  sleep of the poller between two cycles (ms)
POLL_DELAY == 5000

\* display.rs:194, 234, 260  sleep at the end of show_balance, show_tps,
\* show_sol_usd_price (ms)
SHOW_DELAY == 1500

\* main.rs:123  let mut prev_value = 1u64
PREV_VALUE_INIT == 1

\* http.rs:147  num_tx / 60
TPS_WINDOW == 60

\* the time the line of a held button stays low in SpecTimed (ms): 10 s
HOLD_TIME == 2 * COOLDOWN

----------------------------------------------------------------------------
(* Threads, sections, locks *)

\* display.rs / main.rs:129-155  enum DisplaySection
Sections == {"Balance", "Tps", "SolPrice", "QrCode", "ScreenOff"}

\* main.rs:162-222  the five button watcher threads, named by their input pin
Watchers == {"show_balance_btn", "show_solana_price_btn", "show_tps_btn",
             "show_wallet_qr_code_btn", "off_btn"}

\* main.rs:165, 177, 189, 201, 214  the section a watcher writes
BtnSection(w) ==
    CASE w = "show_balance_btn"        -> "Balance"
      [] w = "show_solana_price_btn"   -> "SolPrice"
      [] w = "show_tps_btn"            -> "Tps"
      [] w = "show_wallet_qr_code_btn" -> "QrCode"
      [] w = "off_btn"                 -> "ScreenOff"

Threads == {"render", "poller"} \cup Watchers

BalanceVals == 0..MaxBalance

VARIABLES
    \* shared state (main.rs:81, 120)
    display_section,   \* Arc<Mutex<DisplaySection>>: the value
    balance,           \* Arc<Mutex<u64>>: the value
    \* the owners of the three mutexes ("free" or a thread)
    section_lock, display_lock, balance_lock,
    \* indicator outputs (main.rs:57, 58)
    led_2, led_3,
    \* render loop thread (main.rs:123-160)
    rpc,               \* position in the loop
    rsec,              \* the section the latest match was taken on ("none" at start)
    prev_value,        \* main.rs:123
    \* what the tick that is at its end (rpc = "release") did
    drew,              \* the draw operation it invoked, "none" if none
    drew_value,        \* the balance it handed to show_balance
    cur_val,           \* the value of its section the latest match saw
    \* button watchers (main.rs:162-222)
    wpc,               \* position of each watcher
    \* poller loop (main.rs:224-229)
    ppc,               \* position in the loop
    balance_value,     \* main.rs:225
    cycle_calls,       \* the Http operations this cycle has called
    \* one call of a fetch operation of Http (http.rs:78-209)
    fop,               \* the operation running, "none" if none
    fpc,               \* position in the operation
    attempts,          \* http.rs:101, 177
    requests,          \* http_request invocations of this call
    all_failed,        \* every http_request of this call returned Err
    fret,              \* the Result returned
    slept,             \* the time this call has slept between attempts (ms)
    \* what the remote served for the balance (observation only)
    cycle_bal,         \* number carried by this cycle's balance response, -1 if none
    last_ok_bal,       \* number carried by the latest successful balance response
    bal_exhausted,     \* this cycle's balance fetch failed on all attempts
    \* time (SpecTimed only; in the other specifications timed is FALSE,
    \* every timer stays 0 and now stays 0)
    timed, now, timer,
    wave,              \* per watcher: its line is low in [from, to)
    wtimes             \* per watcher: the times of its writes (SpecTimed only)

vars == <<display_section, balance, section_lock, display_lock, balance_lock,
          led_2, led_3, rpc, rsec, prev_value, drew, drew_value,
          cur_val, wpc, ppc, balance_value, cycle_calls, fop, fpc, attempts,
          requests, all_failed, fret, slept, cycle_bal, last_ok_bal,
          bal_exhausted, timed, now, timer, wave, wtimes>>

sharedVars == <<display_section, balance>>
lockVars   == <<section_lock, display_lock, balance_lock>>
renderVars == <<led_2, led_3, rpc, rsec, prev_value, drew, drew_value,
                cur_val>>
pollerVars == <<ppc, balance_value, cycle_calls>>
fetchVars  == <<fop, fpc, attempts, requests, all_failed, fret, slept>>
obsVars    == <<cycle_bal, last_ok_bal, bal_exhausted>>
timeVars   == <<timed, now, timer, wave, wtimes>>

----------------------------------------------------------------------------
(* JSON values (serde_json::Value) and what the code reads from them *)

Null   == [t |-> "null"]
Num(n) == [t |-> "num", n |-> n]
Obj(f) == [t |-> "obj", f |-> f]
Arr(s) == [t |-> "arr", e |-> s]

NoFields == [k \in {} |-> Null]

\* value["key"]: Null when value is no object or has no such key
Index(j, k) ==
    IF j.t = "obj" /\ k \in DOMAIN j.f THEN j.f[k] ELSE Null

\* Option<T>
Some(x) == [some |-> TRUE, x |-> x]
None    == [some |-> FALSE]

\* Value::as_u64: a number that is a non-negative integer
as_u64(j) == IF j.t = "num" /\ j.n >= 0 THEN Some(j.n) ELSE None

\* Value::as_f64 and Value::as_i64: any number of the model
as_f64(j) == IF j.t = "num" THEN Some(j.n) ELSE None

\* Value::as_array().and_then(|array| array.get(0))
first_of_array(j) ==
    IF j.t = "arr" /\ Len(j.e) > 0 THEN Some(j.e[1]) ELSE None

\* Option::unwrap_or
opt_unwrap_or(o, d) == IF o.some THEN o.x ELSE d

\* Result<T, E>
Ok(v)  == [ok |-> TRUE, v |-> v]
Err(e) == [ok |-> FALSE, e |-> e]

\* Result::unwrap_or
unwrap_or(r, d) == IF r.ok THEN r.v ELSE d

----------------------------------------------------------------------------
(* What the remote end can answer *)

\* the documents a JSON-RPC or REST end point answers with
BalanceDoc(n) == Obj([result |-> Obj([value |-> Num(n)])])
SamplesDoc(ntx, slot) ==
    Obj([result |-> Arr(<<Obj([numTransactions |-> Num(ntx), slot |-> Num(slot)])>>)])
NoSamplesDoc  == Obj([result |-> Arr(<<>>)])
BlankSampleDoc == Obj([result |-> Arr(<<Obj(NoFields)>>)])
PriceDoc(p)   == Obj([solana |-> Obj([usd |-> Num(p)])])
TimeDoc       == Obj([year |-> Num(2024), month |-> Num(12), day |-> Num(1),
                      hour |-> Num(9), minute |-> Num(5), seconds |-> Num(7)])
\* a well-formed answer with none of the expected fields (a JSON-RPC error)
RpcErrorDoc   == Obj([error |-> Num(1)])

DocsOf(op) ==
    {RpcErrorDoc} \cup
    CASE op = "get_balance"      -> {BalanceDoc(n) : n \in BalanceVals} \cup {BalanceDoc(-1)}
      [] op = "get_tps"          -> {SamplesDoc(120, 7), NoSamplesDoc, BlankSampleDoc}
      [] op = "get_solana_price" -> {PriceDoc(15), PriceDoc(0)}
      [] op = "utc_offset_time"  -> {TimeDoc}

\* a response: the transport works or not, the status line, the body text
Answer(doc)   == [transport |-> "ok", status |-> 200, text |-> "json", doc |-> doc]
Garbage       == [transport |-> "ok", status |-> 200, text |-> "garbage", doc |-> Null]
EmptyBody     == [transport |-> "ok", status |-> 200, text |-> "empty", doc |-> Null]
ServerError   == [transport |-> "ok", status |-> 500, text |-> "empty", doc |-> Null]
TransportFail == [transport |-> "fail", status |-> 0, text |-> "empty", doc |-> Null]

Responses(op) ==
    {TransportFail, ServerError, Garbage, EmptyBody} \cup {Answer(d) : d \in DocsOf(op)}

----------------------------------------------------------------------------
(* http.rs: the fetch operations *)

\* Http::http_request (http.rs:39-76): Err on a transport failure (the ? of
\* lines 47-51, 64), on a status outside 200..=299 (55-57), on a body that is
\* no JSON text (72); else the document
http_request(resp) ==
    IF resp.transport # "ok" THEN Err("transport")
    ELSE IF ~(resp.status >= 200 /\ resp.status <= 299) THEN Err("status")
    ELSE IF resp.text # "json" THEN Err("parse")
    ELSE Ok(resp.doc)

\* http.rs:105  Ok(value) => return Ok(value["result"].clone())
sol_result(value) == Ok(Index(value, "result"))

\* get_balance reading "result" again where http_sol_request has already
\* taken it out (a mutant of get_balance_ret)
get_balance_ret_reads_result(r) ==
    IF r.ok THEN Ok(opt_unwrap_or(as_u64(Index(Index(r.v, "result"), "value")), 0))
    ELSE Ok(0)

\* Http::get_balance (http.rs:123-132): the match on http_sol_request's result
get_balance_ret(r) ==
    IF r.ok THEN Ok(opt_unwrap_or(as_u64(Index(r.v, "value")), 0))
    ELSE Ok(0)

\* Http::get_tps (http.rs:138-154): the match on http_sol_request's result
get_tps_ret(r) ==
    IF r.ok
    THEN LET first == first_of_array(r.v) IN
         IF ~first.some THEN Err("no performance samples found in the response")
         ELSE LET num_tx == opt_unwrap_or(as_u64(Index(first.x, "numTransactions")), 0)
                  slot   == opt_unwrap_or(as_u64(Index(first.x, "slot")), 0)
              IN Ok(<<slot, num_tx \div TPS_WINDOW>>)
    ELSE Ok(<<0, 0>>)

\* get_solana_price handing the error on instead of the fallback (a mutant
\* of get_solana_price_ret)
get_solana_price_ret_propagates(r) ==
    IF r.ok THEN Ok(opt_unwrap_or(as_f64(Index(Index(r.v, "solana"), "usd")), 0))
    ELSE Err(r.e)

\* Http::get_solana_price (http.rs:160-169): the match on http_request's result
get_solana_price_ret(r) ==
    IF r.ok THEN Ok(opt_unwrap_or(as_f64(Index(Index(r.v, "solana"), "usd")), 0))
    ELSE Ok(0)

\* Http::utc_offset_time (http.rs:181-192): the Ok arm; the two strings are
\* kept as the numbers they are formatted from
utc_offset_time_ok(response) ==
    LET f(k) == opt_unwrap_or(as_f64(Index(response, k)), 0) IN
    Ok(<< <<f("hour"), f("minute"), f("seconds")>>,
          <<f("year"), f("month"), f("day")>> >>)

----------------------------------------------------------------------------
(* Time *)

\* std::thread::sleep(d) by thread t: t takes no step for d ms
Sleep(t, d) == [timer EXCEPT ![t] = IF timed THEN d ELSE 0]

\* the process lives until the main thread panics (main.rs:226)
Alive == ppc # "panicked"

\* thread t is not asleep
Awake(t) == Alive /\ timer[t] = 0

----------------------------------------------------------------------------
(* One call of a fetch operation *)

NoResult == Err("none")

\* what the remote served for the balance: the number of a well-formed
\* getBalance answer, -1 for any other response
Carried(resp) ==
    IF \E n \in BalanceVals : resp = Answer(BalanceDoc(n))
    THEN CHOOSE n \in BalanceVals : resp = Answer(BalanceDoc(n))
    ELSE -1

\* the loop condition running one attempt more than the code's (a mutant of
\* retry_guard)
retry_guard_short(att) == att < max_retries - 1

\* http.rs:103 and http.rs:179  while attempts < max_retries
retry_guard(att) == att < max_retries

\* the sleep taken after the last failed attempt too (a mutant of
\* sleeps_before_retry)
sleeps_after_every_failure(att) == att <= max_retries

\* http.rs:109 and http.rs:197  if attempts < max_retries { sleep } else
\* { return Err(e) }, on the attempts counted so far
sleeps_before_retry(att) == att < max_retries

\* entry of get_balance, get_tps (through http_sol_request, http.rs:100-101),
\* get_solana_price (http.rs:157-160), utc_offset_time (http.rs:176-177)
BeginCall(op) ==
    /\ fpc = "idle"
    /\ fop' = op
    /\ fpc' = IF op = "get_solana_price" THEN "request" ELSE "loop"
    /\ attempts' = 0
    /\ requests' = 0
    /\ all_failed' = TRUE
    /\ fret' = NoResult
    /\ slept' = 0
    /\ cycle_bal' = IF op = "get_balance" THEN -1 ELSE cycle_bal
    /\ bal_exhausted' = IF op = "get_balance" THEN FALSE ELSE bal_exhausted
    /\ UNCHANGED last_ok_bal

\* the caller has taken the Result: the locals of the call are gone
EndCall ==
    /\ fpc' = "idle"
    /\ fop' = "none"
    /\ fret' = NoResult
    /\ attempts' = 0
    /\ requests' = 0
    /\ all_failed' = TRUE
    /\ slept' = 0

\* get_balance / get_tps applied to what http_sol_request returns
sol_caller_ret(op, r) ==
    IF op = "get_balance" THEN get_balance_ret(r) ELSE get_tps_ret(r)

\* Http::http_sol_request (http.rs:103-118): one turn of the while loop, and
\* the match of get_balance / get_tps on what it returns
SolRequestAttempt ==
    /\ Awake("poller")
    /\ fpc = "loop"
    /\ fop \in {"get_balance", "get_tps"}
    /\ IF retry_guard(attempts)
       THEN \E resp \in Responses(fop) :
              LET r == http_request(resp) IN
              /\ requests' = requests + 1
              /\ IF r.ok
                 THEN /\ fret' = sol_caller_ret(fop, sol_result(r.v))
                      /\ fpc' = "returned"
                      /\ all_failed' = FALSE
                      /\ UNCHANGED attempts
                 ELSE /\ attempts' = attempts + 1
                      /\ UNCHANGED all_failed
                      /\ IF sleeps_before_retry(attempts')
                         THEN fpc' = "backoff" /\ UNCHANGED fret
                         ELSE fpc' = "returned" /\ fret' = sol_caller_ret(fop, Err(r.e))
              /\ IF fop = "get_balance"
                 THEN /\ cycle_bal' = Carried(resp)
                      /\ last_ok_bal' = IF Carried(resp) >= 0 THEN Carried(resp)
                                        ELSE last_ok_bal
                      /\ bal_exhausted' = (~r.ok /\ attempts + 1 >= max_retries)
                 ELSE UNCHANGED <<cycle_bal, last_ok_bal, bal_exhausted>>
       ELSE /\ fret' = sol_caller_ret(fop, Err("Unexpected failure after retries"))
            /\ fpc' = "returned"
            /\ UNCHANGED <<attempts, requests, all_failed, cycle_bal, last_ok_bal,
                           bal_exhausted>>
    /\ UNCHANGED <<fop, slept>>
    /\ UNCHANGED <<sharedVars, lockVars, renderVars, pollerVars, wpc, timeVars>>

\* Http::utc_offset_time (http.rs:179-208): one turn of the while loop
UtcAttempt ==
    /\ Awake("poller")
    /\ fpc = "loop"
    /\ fop = "utc_offset_time"
    /\ IF retry_guard(attempts)
       THEN \E resp \in Responses(fop) :
              LET r == http_request(resp) IN
              /\ requests' = requests + 1
              /\ IF r.ok
                 THEN /\ fret' = utc_offset_time_ok(r.v)
                      /\ fpc' = "returned"
                      /\ all_failed' = FALSE
                      /\ UNCHANGED attempts
                 ELSE /\ attempts' = attempts + 1
                      /\ UNCHANGED all_failed
                      /\ IF sleeps_before_retry(attempts')
                         THEN fpc' = "backoff" /\ UNCHANGED fret
                         ELSE fpc' = "returned" /\ fret' = Err(r.e)
       ELSE /\ fret' = Err("Unexpected failure after retries")
            /\ fpc' = "returned"
            /\ UNCHANGED <<attempts, requests, all_failed>>
    /\ UNCHANGED <<fop, slept, obsVars>>
    /\ UNCHANGED <<sharedVars, lockVars, renderVars, pollerVars, wpc, timeVars>>

\* http.rs:110 and http.rs:199: the sleep between a failed attempt and the next
RetryBackoff ==
    /\ Awake("poller")
    /\ fpc = "backoff"
    /\ fpc' = "loop"
    /\ timer' = Sleep("poller", RETRY_DELAY)
    /\ slept' = slept + RETRY_DELAY
    /\ UNCHANGED <<fop, attempts, requests, all_failed, fret, obsVars>>
    /\ UNCHANGED <<sharedVars, lockVars, renderVars, pollerVars, wpc,
                   timed, now, wave, wtimes>>

\* Http::get_solana_price (http.rs:160-169): one http_request, no loop
PriceRequest ==
    /\ Awake("poller")
    /\ fpc = "request"
    /\ fop = "get_solana_price"
    /\ \E resp \in Responses(fop) :
         LET r == http_request(resp) IN
         /\ requests' = requests + 1
         /\ all_failed' = ~r.ok
         /\ fret' = get_solana_price_ret(r)
    /\ fpc' = "returned"
    /\ UNCHANGED <<fop, attempts, slept, obsVars>>
    /\ UNCHANGED <<sharedVars, lockVars, renderVars, pollerVars, wpc, timeVars>>

----------------------------------------------------------------------------
(* The poller loop (main.rs:224-229) *)

\* main.rs:225  http.get_balance(..): the call
PollerCallBalance ==
    /\ Awake("poller")
    /\ ppc = "get_balance"
    /\ BeginCall("get_balance")
    /\ cycle_calls' = cycle_calls \cup {"get_balance"}
    /\ UNCHANGED <<ppc, balance_value>>
    /\ UNCHANGED <<sharedVars, lockVars, renderVars, wpc, timeVars>>

\* main.rs:225  let balance_value = ... .unwrap_or(0)
PollerBalanceReturned ==
    /\ Awake("poller")
    /\ ppc = "get_balance"
    /\ fpc = "returned"
    /\ balance_value' = unwrap_or(fret, 0)
    /\ ppc' = "get_tps"
    /\ EndCall
    /\ UNCHANGED <<cycle_calls, obsVars>>
    /\ UNCHANGED <<sharedVars, lockVars, renderVars, wpc, timeVars>>

\* main.rs:226  http.get_tps(): the call
PollerCallTps ==
    /\ Awake("poller")
    /\ ppc = "get_tps"
    /\ BeginCall("get_tps")
    /\ cycle_calls' = cycle_calls \cup {"get_tps"}
    /\ UNCHANGED <<ppc, balance_value>>
    /\ UNCHANGED <<sharedVars, lockVars, renderVars, wpc, timeVars>>

\* main.rs:226  let (slot, tps) = ... .unwrap(): a panic of the main thread
\* on Err, which ends the process
PollerTpsReturned ==
    /\ Awake("poller")
    /\ ppc = "get_tps"
    /\ fpc = "returned"
    /\ ppc' = IF fret.ok THEN "store" ELSE "panicked"
    /\ EndCall
    /\ UNCHANGED <<balance_value, cycle_calls, obsVars>>
    /\ UNCHANGED <<sharedVars, lockVars, renderVars, wpc, timeVars>>

\* main.rs:227  *balance.lock().unwrap() = balance_value
PollerStore ==
    /\ Awake("poller")
    /\ ppc = "store"
    /\ balance_lock = "free"
    /\ balance' = balance_value
    /\ ppc' = "sleep"
    /\ UNCHANGED <<display_section, lockVars, renderVars, balance_value,
                   cycle_calls, wpc,
                   fetchVars, obsVars, timeVars>>

\* main.rs:228  std::thread::sleep(Duration::from_millis(5000))
PollerSleep ==
    /\ Awake("poller")
    /\ ppc = "sleep"
    /\ ppc' = "get_balance"
    /\ balance_value' = 0         \* the let of the loop body goes out of scope
    /\ cycle_calls' = {}          \* the next cycle begins
    /\ timer' = Sleep("poller", POLL_DELAY)
    /\ UNCHANGED <<sharedVars, lockVars, renderVars, wpc,
                   fetchVars, obsVars, timed, now, wave, wtimes>>

----------------------------------------------------------------------------
(* The render loop thread (main.rs:125-160) *)

\* main.rs:128  led_2.set_high()
RenderLed ==
    /\ Awake("render")
    /\ rpc = "led"
    /\ led_2' = TRUE
    /\ rpc' = "match"
    /\ UNCHANGED <<led_3, rsec, prev_value, drew, drew_value, cur_val>>
    /\ UNCHANGED <<sharedVars, lockVars, pollerVars, wpc, fetchVars, obsVars, timeVars>>

\* main.rs:140, 144: the constants handed to show_tps and show_sol_usd_price.
\* The arms of the render loop are modelled from main.rs, which hands the
\* draw operations these constants; the bodies of show_tps and
\* show_sol_usd_price are those of display.rs:197-261, which are declared
\* with an Http parameter, call a fetch operation on it (DrawFetch) and end
\* with a sleep. The time that fetch takes is not counted in SpecTimed.
TPS_ARG == <<1, 1>>
SOL_PRICE_ARG == <<15>>

\* the QrCode arm drawing on a change only, like the Balance arm (a mutant
\* of ArmDraw)
ArmDraw_qr_on_change(sec, differs) ==
    CASE sec = "Balance"   -> IF differs THEN "show_balance" ELSE "none"
      [] sec = "Tps"       -> "show_tps"
      [] sec = "SolPrice"  -> "show_sol_usd_price"
      [] sec = "QrCode"    -> IF differs THEN "draw_qr_code" ELSE "none"
      [] sec = "ScreenOff" -> "draw_image"

\* the draw operation an arm invokes (main.rs:130-155), given whether the
\* balance differs from prev_value (main.rs:133)
ArmDraw(sec, differs) ==
    CASE sec = "Balance"   -> IF differs THEN "show_balance" ELSE "none"
      [] sec = "Tps"       -> "show_tps"
      [] sec = "SolPrice"  -> "show_sol_usd_price"
      [] sec = "QrCode"    -> "draw_qr_code"
      [] sec = "ScreenOff" -> "draw_image"

\* the Http operation the body of a draw operation calls, "none" if none:
\* display.rs:199  http.get_tps().unwrap_or_default()
\* display.rs:242  http.get_solana_price().unwrap_or_default()
\* display.rs:172  http.utc_offset_time().unwrap_or_default()
DrawFetch(op) ==
    CASE op = "show_tps"           -> "get_tps"
      [] op = "show_sol_usd_price" -> "get_solana_price"
      [] op = "draw_time"          -> "utc_offset_time"
      [] OTHER                     -> "none"

\* display.rs:194, 234, 260: the draw operations that end with a sleep
Sleeps(op) == op \in {"show_balance", "show_tps", "show_sol_usd_price"}

\* main.rs:129-155  match *_display_section_clone.lock().unwrap() { .. }:
\* the section guard is a temporary of the scrutinee and lives to the end of
\* the match statement; the arm takes display_clone1.lock(), reads the
\* balance under its own lock (main.rs:132, released at the end of that
\* statement) and draws. Both guards are still held when the draw operation
\* sleeps (the thread then waits at "release"). Taking the section mutex
\* and running the arm are one step: no other thread can write the section
\* in between, and the balance is read once, inside the arm.
RenderMatch ==
    /\ Awake("render")
    /\ rpc = "match"
    /\ section_lock = "free"
    /\ display_lock = "free"
    /\ balance_lock = "free" \/ display_section # "Balance"
    /\ section_lock' = "render"
    /\ display_lock' = "render"
    /\ rsec' = display_section
    /\ LET bv == balance            \* main.rs:132
           op == ArmDraw(rsec', prev_value # bv)
       IN /\ drew' = op
          /\ drew_value' = IF op = "show_balance" THEN bv ELSE 0
          /\ prev_value' = IF op = "show_balance" THEN bv ELSE prev_value
          /\ cur_val' = CASE rsec' = "Balance"  -> <<bv>>
                          [] rsec' = "Tps"      -> TPS_ARG
                          [] rsec' = "SolPrice" -> SOL_PRICE_ARG
                          [] OTHER              -> <<>>
          /\ timer' = IF Sleeps(op) THEN Sleep("render", SHOW_DELAY) ELSE timer
    /\ led_2' = IF rsec' = "ScreenOff" THEN FALSE ELSE led_2     \* main.rs:151
    /\ led_3' = IF rsec' = "ScreenOff" THEN TRUE ELSE led_3      \* main.rs:154
    /\ rpc' = "release"
    /\ UNCHANGED <<sharedVars, balance_lock, pollerVars, wpc, fetchVars,
                   obsVars, timed, now, wave, wtimes>>

\* the render loop putting the section back to Balance at the end of a tick
\* (a mutant of RenderRelease)
RenderRelease_writes_section ==
    /\ Awake("render")
    /\ rpc = "release"
    /\ display_lock' = "free"
    /\ section_lock' = "free"
    /\ led_3' = FALSE
    /\ drew' = "none" /\ drew_value' = 0
    /\ rpc' = "led"
    /\ timer' = Sleep("render", LOOP_DELAY)
    /\ display_section' = "Balance"
    /\ UNCHANGED <<led_2, rsec, prev_value, cur_val>>
    /\ UNCHANGED <<balance, balance_lock, pollerVars, wpc, fetchVars, obsVars,
                   timed, now, wave, wtimes>>

\* main.rs:156-158: the end of the match drops both guards, then
\* led_3.set_low() and the sleep of LOOP_DELAY
RenderRelease ==
    /\ Awake("render")
    /\ rpc = "release"
    /\ display_lock' = "free"
    /\ section_lock' = "free"
    /\ led_3' = FALSE
    /\ drew' = "none" /\ drew_value' = 0
    /\ rpc' = "led"
    /\ timer' = Sleep("render", LOOP_DELAY)
    /\ UNCHANGED <<led_2, rsec, prev_value, cur_val>>
    /\ UNCHANGED <<sharedVars, balance_lock, pollerVars, wpc, fetchVars, obsVars,
                   timed, now, wave, wtimes>>

----------------------------------------------------------------------------
(* The button watcher threads (main.rs:162-222) *)

\* the level of w's input line: any level when time is abstracted away, the
\* level of its waveform at this time in SpecTimed
IsLow(w) ==
    IF timed THEN {wave[w].from <= now /\ now < wave[w].to} ELSE BOOLEAN

\* main.rs:164, 167-169  if btn.is_low() { .. } else { sleep(500); continue }
WatcherPoll(w) ==
    /\ Awake(w)
    /\ wpc[w] = "poll"
    /\ \E low \in IsLow(w) :
         IF low
         THEN wpc' = [wpc EXCEPT ![w] = "write"] /\ UNCHANGED timer
         ELSE timer' = Sleep(w, PULSE_DELAY) /\ UNCHANGED wpc
    /\ UNCHANGED <<sharedVars, lockVars, renderVars, pollerVars, fetchVars, obsVars,
                   timed, now, wave, wtimes>>

\* one button toggling between its section and ScreenOff (a mutant of
\* WatcherWrite)
WatcherWrite_toggles(w) ==
    /\ Awake(w)
    /\ wpc[w] = "write"
    /\ section_lock = "free"
    /\ display_section' = IF display_section = BtnSection(w) THEN "ScreenOff"
                          ELSE BtnSection(w)
    /\ wpc' = [wpc EXCEPT ![w] = "poll"]
    /\ timer' = Sleep(w, COOLDOWN)
    /\ wtimes' = IF timed THEN [wtimes EXCEPT ![w] = @ \cup {now}] ELSE wtimes
    /\ UNCHANGED <<balance, lockVars, renderVars, pollerVars, fetchVars, obsVars,
                   timed, now, wave>>

\* main.rs:165, 171  *display_section.lock().unwrap() = <section>, then the
\* sleep of 5000 ms
WatcherWrite(w) ==
    /\ Awake(w)
    /\ wpc[w] = "write"
    /\ section_lock = "free"
    /\ display_section' = BtnSection(w)
    /\ wpc' = [wpc EXCEPT ![w] = "poll"]
    /\ timer' = Sleep(w, COOLDOWN)
    /\ wtimes' = IF timed THEN [wtimes EXCEPT ![w] = @ \cup {now}] ELSE wtimes
    /\ UNCHANGED <<balance, lockVars, renderVars, pollerVars, fetchVars, obsVars,
                   timed, now, wave>>

----------------------------------------------------------------------------
(* SpecTimed: the passing of time *)

\* the threads SpecTimed schedules; the poller stays inside its first
\* http_request (a request may take up to the 30 s timeout of http.rs:27)
TimedThreads == {"render"} \cup Watchers

\* t can take a step now: it is awake and the mutex it asks for is free
Runnable(t) ==
    /\ Awake(t)
    /\ (t = "render" /\ rpc = "match") => section_lock = "free"
    /\ (t \in Watchers /\ wpc[t] = "write") => section_lock = "free"

Min(S) == CHOOSE x \in S : \A y \in S : x <= y

\* time passes only when no thread can take a step, and then up to the end
\* of the shortest running sleep
Tick ==
    /\ timed
    /\ \A t \in TimedThreads : ~Runnable(t)
    /\ LET running == {timer[t] : t \in TimedThreads} \ {0} IN
       /\ running # {}
       /\ now + Min(running) <= MaxTime
       /\ now' = now + Min(running)
       /\ timer' = [t \in Threads |->
                      IF t \in TimedThreads /\ timer[t] > 0
                      THEN timer[t] - Min(running) ELSE timer[t]]
    /\ UNCHANGED <<sharedVars, lockVars, renderVars, pollerVars, wpc, fetchVars,
                   obsVars, timed, wave, wtimes>>

\* the waveforms of an input line: never low, held low from t = 0 for
\* HOLD_TIME, low for a short press that one poll catches
NeverLow == [from |-> 0, to |-> 0]
Held     == [from |-> 0, to |-> HOLD_TIME]
Press    == [from |-> PULSE_DELAY + 400, to |-> 2 * PULSE_DELAY + 400]
Waves    == {NeverLow, Held, Press}

----------------------------------------------------------------------------
(* Initial states and specifications *)

\* the state when the threads are spawned (main.rs:81, 113, 120-125)
InitProgram ==
    /\ display_section = "Balance"
    /\ balance = 0
    /\ section_lock = "free" /\ display_lock = "free" /\ balance_lock = "free"
    /\ led_2 = FALSE /\ led_3 = FALSE
    /\ rpc = "led" /\ rsec = "none"
    /\ prev_value = PREV_VALUE_INIT
    /\ drew = "none" /\ drew_value = 0
    /\ cur_val = <<>>
    /\ wpc = [w \in Watchers |-> "poll"]
    /\ balance_value = 0 /\ cycle_calls = {}
    /\ fop = "none" /\ fpc = "idle" /\ attempts = 0 /\ requests = 0
    /\ all_failed = TRUE /\ fret = NoResult /\ slept = 0
    /\ cycle_bal = -1 /\ last_ok_bal = 0
    /\ bal_exhausted = FALSE
    /\ now = 0
    /\ timer = [t \in Threads |-> 0]
    /\ wtimes = [w \in Watchers |-> {}]

Init ==
    /\ InitProgram
    /\ ppc = "get_balance"
    /\ timed = FALSE
    /\ wave = [w \in Watchers |-> NeverLow]

PollerStep ==
    \/ PollerCallBalance \/ PollerBalanceReturned \/ PollerCallTps
    \/ PollerTpsReturned \/ PollerStore \/ PollerSleep
    \/ SolRequestAttempt \/ RetryBackoff

RenderStep == RenderLed \/ RenderMatch \/ RenderRelease

WatcherStep == \E w \in Watchers : WatcherPoll(w) \/ WatcherWrite(w)

Next == PollerStep \/ RenderStep \/ WatcherStep

Spec == Init /\ [][Next]_vars

\* the four fetch operations, called by a caller that only calls them
FetchOps == {"get_balance", "get_tps", "get_solana_price", "utc_offset_time"}

Call(op) ==
    /\ ppc = "caller"
    /\ BeginCall(op)
    /\ UNCHANGED <<sharedVars, lockVars, renderVars, pollerVars, wpc, timeVars>>

Return ==
    /\ ppc = "caller"
    /\ fpc = "returned"
    /\ EndCall
    /\ UNCHANGED obsVars
    /\ UNCHANGED <<sharedVars, lockVars, renderVars, pollerVars, wpc, timeVars>>

InitFetch ==
    /\ InitProgram
    /\ ppc = "caller"
    /\ timed = FALSE
    /\ wave = [w \in Watchers |-> NeverLow]

NextFetch ==
    \/ \E op \in FetchOps : Call(op)
    \/ Return
    \/ SolRequestAttempt \/ UtcAttempt \/ RetryBackoff \/ PriceRequest

SpecFetch == InitFetch /\ [][NextFetch]_vars

InitTimed ==
    /\ InitProgram
    /\ ppc = "get_balance"
    /\ timed = TRUE
    /\ wave \in [Watchers -> Waves]

NextTimed == RenderStep \/ WatcherStep \/ Tick

SpecTimed == InitTimed /\ [][NextTimed]_vars

\* SpecLive: the threads of main.rs under fair scheduling, with two of the
\* five buttons ever pressed. A watcher whose line is never low only
\* sleeps (main.rs:167-169), which changes nothing when time is abstracted
\* away, so the other three watchers take no step here.
PressedButtons == {"show_balance_btn", "show_tps_btn"}

WatcherStepLive ==
    \E w \in PressedButtons : WatcherPoll(w) \/ WatcherWrite(w)

NextLive == PollerStep \/ RenderStep \/ WatcherStepLive

\* the scheduling of the threads (std::thread::spawn, main.rs:125-222, and
\* the main thread): a thread that can take a step takes one, and a watcher
\* blocked on the section mutex gets it, the render loop leaving it free
\* for LOOP_DELAY on every tick (main.rs:156-158). Nothing obliges a button
\* to be pressed.
Fairness ==
    /\ WF_vars(PollerStep)
    /\ WF_vars(RenderStep)
    /\ \A w \in PressedButtons : SF_vars(WatcherWrite(w))

SpecLive == Init /\ [][NextLive]_vars /\ Fairness

----------------------------------------------------------------------------
(* The claims *)

\* the fetch operations with a fallback value
Advisory == {"get_balance", "get_tps", "get_solana_price"}

\* the render loop has just taken a match (one tick of the loop); unprimed
\* rsec and cur_val are those of the tick before it
RenderTick == rpc = "match" /\ rpc' = "release"

\* C1 (as claimed): a fetch operation whose every request failed has invoked
\* http_request exactly max_retries = 3 times when it returns.
\* Under SpecFetch get_solana_price returns after one request.
C1_RetryBound ==
    (fpc = "returned" /\ all_failed) => requests = max_retries

\* C2 (as claimed): a tick that finds Balance active after a tick that found
\* another section active invokes show_balance, whatever the stored balance;
\* a tick that finds another section active does not invoke it.
\* Under Spec prev_value is never reset, so the return tick draws nothing
\* when the stored balance is the one drawn before.
C2_ForcedRedraw ==
    [][RenderTick =>
         /\ (rsec' = "Balance" /\ rsec \notin {"none", "Balance"})
               => drew' = "show_balance"
         /\ rsec' # "Balance" => drew' # "show_balance"]_vars

\* C3 (as claimed): a tick that finds the same diffable section (Balance,
\* Tps, SolPrice) active as the tick before it, with the same value of that
\* section, invokes no draw operation.
\* Under Spec the Tps and SolPrice arms draw on every tick.
C3_IdempotentRender ==
    [][(RenderTick /\ rsec' \in {"Balance", "Tps", "SolPrice"}
          /\ rsec = rsec' /\ cur_val = cur_val')
         => drew' = "none"]_vars

\* C4 (as claimed): the poller never panics, whatever the remote answers.
\* Under Spec a get_tps answer without a first sample makes get_tps return
\* Err and the unwrap of main.rs:226 panic.
C4_PollerNeverPanics == ppc # "panicked"

\* C5 (as claimed): a watcher whose line is held low from t = 0 for 10 s
\* writes at t = 0 and at t = COOLDOWN only, and has written exactly twice
\* when the 10 s are over.
\* Under SpecTimed the write waits for the section mutex, which the render
\* loop holds while a draw operation sleeps SHOW_DELAY.
C5_Debounce ==
    \A w \in Watchers :
        wave[w] = Held =>
            /\ wtimes[w] \subseteq {0, COOLDOWN}
            /\ now >= HOLD_TIME => Cardinality(wtimes[w]) = 2

\* C6 (as claimed): the poll cycle that has obtained a balance has stored it
\* when the cycle is over, whatever the other fetch of the cycle returned.
\* Under Spec a cycle ends in the panic of main.rs:226 before the store of
\* main.rs:227.
C6_BalanceStoredEachCycle ==
    ppc \in {"sleep", "panicked"} => balance = balance_value

\* C7: when every request of a call failed, get_balance returns Ok(0),
\* get_tps returns Ok((0, 0)), get_solana_price returns Ok(0.0), and
\* utc_offset_time returns Err.
C7_FallbackOnFailure ==
    (fpc = "returned" /\ all_failed) =>
        CASE fop = "get_balance"      -> fret.ok /\ fret.v = 0
          [] fop = "get_tps"          -> fret.ok /\ fret.v = <<0, 0>>
          [] fop = "get_solana_price" -> fret.ok /\ fret.v = 0
          [] fop = "utc_offset_time"  -> ~fret.ok

\* C7 witness: get_balance has returned after three failed requests
C7_Witness ==
    /\ fpc = "returned" /\ fop = "get_balance"
    /\ all_failed /\ requests = max_retries /\ attempts = max_retries

\* C8 (as claimed): get_balance, get_tps and get_solana_price return Ok for
\* every response.
\* Under SpecFetch get_tps returns Err for a well-formed answer whose result
\* is no array or an empty one.
C8_AdvisoryNeverErr ==
    (fpc = "returned" /\ fop \in Advisory) => fret.ok

\* C9 (as claimed): when a poll cycle has stored, the stored balance is the
\* number of the latest successful balance response (0 before the first).
\* Under Spec a cycle whose balance fetch fails stores the fallback 0.
C9_LastSuccessfulBalance ==
    ppc = "sleep" => balance = last_ok_bal

\* C9 (amended): when a poll cycle has stored, the stored balance is what
\* get_balance returned in that cycle: the number carried by its response,
\* and 0 when every attempt failed or the response carried no such number.
C9_StoredIsCycleResult ==
    ppc = "sleep" => balance = (IF cycle_bal >= 0 THEN cycle_bal ELSE 0)

\* C9 witness: after a successful fetch of 1, a cycle whose balance fetch
\* failed on all attempts has stored 0
C9_Witness ==
    /\ ppc = "sleep" /\ bal_exhausted
    /\ last_ok_bal = 1 /\ balance = 0

\* C10 (as claimed): a poll cycle whose balance fetch failed on all attempts
\* has stored 0 when it is over, and a tick that found Balance active with
\* the stored balance 0 leaves 0 as the balance drawn last.
\* Under Spec the cycle ends in the panic of main.rs:226 with the stored
\* balance left as it was.
C10_FallbackStoredAndDrawn ==
    /\ (ppc \in {"sleep", "panicked"} /\ bal_exhausted) => balance = 0
    /\ (rpc = "release" /\ rsec = "Balance" /\ cur_val = <<0>>) => prev_value = 0

\* C11 (as claimed): a poll cycle that is over has called the fetch
\* operations of all four data kinds (balance, throughput, price, clock).
\* Under Spec a cycle calls get_balance and get_tps only.
C11_AllKindsFetched ==
    ppc = "sleep" => cycle_calls = FetchOps

\* C12 (as claimed): while the render loop sleeps at the end of a tick, led_2
\* is on and led_3 off when the tick found Balance, Tps, SolPrice or QrCode
\* active, and led_3 is on and led_2 off when it found ScreenOff active.
\* Under Spec led_3.set_low() follows the match on every tick.
C12_IndicatorsFollowSection ==
    (rpc = "led" /\ rsec # "none") =>
        IF rsec = "ScreenOff" THEN led_3 /\ ~led_2 ELSE led_2 /\ ~led_3

\* C13 (as claimed): while a draw operation is invoked or sleeps, no thread
\* holds the section mutex or the balance mutex.
\* Under Spec the render loop holds the section mutex to the end of the match.
C13_NoLockWhileRendering ==
    drew # "none" => (section_lock = "free" /\ balance_lock = "free")

\* a watcher has just written the section
WatcherWrote(w) == wpc[w] = "write" /\ wpc'[w] = "poll"

\* C14: a step of the render loop thread leaves the section and the stored
\* balance as they are; the section changes only in a write of a button
\* watcher and the stored balance only in the store of the poller.
C14_RenderWritesNothing ==
    [][/\ rpc' # rpc => (display_section' = display_section /\ balance' = balance)
       /\ display_section' # display_section => \E w \in Watchers : WatcherWrote(w)
       /\ balance' # balance => (ppc = "store" /\ ppc' = "sleep")]_vars

\* C14 witness: a tick has drawn the balance 1 the poller stored and the
\* section is one a watcher wrote
C14_Witness ==
    /\ rpc = "led" /\ rsec = "Balance" /\ prev_value = 1 /\ balance = 1
    /\ led_2 /\ display_section = "QrCode"

\* C15 (as claimed): no draw operation the render loop invokes calls an Http
\* operation.
\* Under Spec the Tps arm invokes show_tps, whose body calls get_tps, and the
\* SolPrice arm show_sol_usd_price, whose body calls get_solana_price.
C15_RenderNeverFetches ==
    drew # "none" => DrawFetch(drew) = "none"

\* C16: the section is Balance at the start, and every step leaves it as it
\* is or is the write of one watcher, after which the section is the section
\* of that watcher, whatever it was and whichever other watchers are about
\* to write.
C16_LastWriteWins ==
    /\ display_section = "Balance"
    /\ [][\/ display_section' = display_section /\ \A w \in Watchers : ~WatcherWrote(w)
          \/ \E w \in Watchers :
               /\ WatcherWrote(w)
               /\ \A x \in Watchers \ {w} : wpc'[x] = wpc[x]
               /\ display_section' = BtnSection(w)]_vars

\* C16 witness: two watchers were about to write at once; one has written
\* and the section is its section while the other is still about to write
C16_Witness ==
    /\ display_section = "Tps" /\ wpc["show_tps_btn"] = "poll"
    /\ wpc["off_btn"] = "write"

\* C17: a tick that finds QrCode active invokes draw_qr_code, whatever the
\* tick before it found and drew.
C17_QrDrawnEveryTick ==
    [][(RenderTick /\ rsec' = "QrCode") => drew' = "draw_qr_code"]_vars

\* C17 witness: a tick that found QrCode active after a tick that found
\* QrCode active has drawn, the stored balance being the one drawn last
C17_Witness ==
    /\ rpc = "release" /\ rsec = "QrCode" /\ drew = "draw_qr_code"
    /\ prev_value = balance /\ led_2

\* C18 (as claimed): the first tick of the render loop that finds Balance
\* active invokes show_balance, whatever balance the poller has stored.
\* Under Spec prev_value starts at 1, a balance the poller can store.
C18_FirstTickDraws ==
    [][(RenderTick /\ rsec = "none" /\ rsec' = "Balance")
         => drew' = "show_balance"]_vars

\* the fetch operations with a retry loop
Retried == {"get_balance", "get_tps", "utc_offset_time"}

\* C19: in a call of a retried fetch operation the calling thread has slept
\* RETRY_DELAY = 1500 ms once after every failed request that another
\* request follows, and at no other point: once per request made when it is
\* about to make the next, once per request but the last when it is about to
\* sleep and when it returns, after a success as after the third failure.
C19_DelayBetweenAttemptsOnly ==
    fop \in Retried =>
        CASE fpc = "loop"     -> slept = requests * RETRY_DELAY
          [] fpc = "backoff"  -> slept = (requests - 1) * RETRY_DELAY
          [] fpc = "returned" -> slept = (requests - 1) * RETRY_DELAY
          [] OTHER            -> TRUE

\* C19 witness: utc_offset_time has returned after three failed requests and
\* two sleeps
C19_Witness ==
    /\ fop = "utc_offset_time" /\ fpc = "returned" /\ all_failed
    /\ requests = max_retries /\ slept = 2 * RETRY_DELAY

\* C20: a call of a retried fetch operation that returns after a successful
\* request has made one request more than it counted failures, at most
\* max_retries, and returns what that request was answered (for get_balance
\* the number the answer carried); a call never goes on after a success, and
\* never returns the error that follows the loop.
C20_StopsAtFirstSuccess ==
    fop \in Retried =>
        /\ (fpc = "returned" /\ ~all_failed) =>
              /\ requests = attempts + 1
              /\ requests <= max_retries
              /\ (fop = "get_balance" /\ cycle_bal >= 0) => fret = Ok(cycle_bal)
              /\ fop = "utc_offset_time" =>
                    \E d \in DocsOf(fop) : fret = utc_offset_time_ok(d)
        /\ (fpc \in {"loop", "backoff"}) => all_failed
        /\ fret # Err("Unexpected failure after retries")

\* C20 witness: get_balance has returned 1 from its second request, the
\* first having failed
C20_Witness ==
    /\ fop = "get_balance" /\ fpc = "returned" /\ ~all_failed
    /\ requests = 2 /\ attempts = 1 /\ fret = Ok(1)

\* C21 (as claimed): every thread that waits for a mutex gets it: a watcher
\* at its write of the section writes, the render loop at its match takes
\* the section and display mutexes, the poller at its store stores.
\* Under SpecLive the panic of main.rs:226 ends the process while a thread
\* waits.
C21_WaitersAcquire ==
    /\ \A w \in Watchers : (wpc[w] = "write") ~> (wpc[w] = "poll")
    /\ (rpc = "match") ~> (rpc = "release")
    /\ (ppc = "store") ~> (ppc = "sleep")

\* C22 (as claimed, on the runs in which the process never ends): when
\* Balance stays the active section and the stored balance stays a value v
\* the poller stored (v is not the initial 0), show_balance is invoked with
\* v at some time.
\* Under SpecLive the balance 1 is never drawn when no balance was drawn
\* before it was stored: prev_value starts at 1.
C22_BalancePropagates ==
    \A v \in BalanceVals \ {0} :
        ([]Alive /\ <>[](display_section = "Balance" /\ balance = v))
            => <>(drew = "show_balance" /\ drew_value = v)

\* the draw operation of a section
DrawOf(S) ==
    CASE S = "Balance"   -> "show_balance"
      [] S = "Tps"       -> "show_tps"
      [] S = "SolPrice"  -> "show_sol_usd_price"
      [] S = "QrCode"    -> "draw_qr_code"
      [] S = "ScreenOff" -> "draw_image"

\* C23 (as claimed): when the section stays S (Tps, SolPrice, QrCode or
\* ScreenOff) from some write on, then from some tick on every tick of the
\* render loop is taken on S and no draw operation but that of S is invoked.
\* Under SpecLive the panic of main.rs:226 ends the process between the
\* write and the render loop's next tick.
C23_SectionSwitch ==
    \A S \in Sections \ {"Balance"} :
        <>[](display_section = S) =>
            <>[](rsec = S /\ drew \in {DrawOf(S), "none"})

====
